---- MODULE Spec2Model ----
(***************************************************************************)
(* Model of the chess game server (src/main.py, src/database.py): the      *)
(* game registry, the per-connection websocket handler with its move       *)
(* pipeline, the fan-out of move events to a game's connections, the       *)
(* login sessions with their cache, and the roster of online users.        *)
(*                                                                         *)
(* Scheduling: every handler is an `async def` run on one event loop, so   *)
(* the code between two awaits is one atomic step.  The awaits are         *)
(* receive_text (the handler waits for the next inbound message) and       *)
(* send_text (one per subscriber inside broadcast_to_game).                *)
(***************************************************************************)
EXTENDS Integers, Sequences, FiniteSets, TLC

\* ------------------------------------------------------------------ bounds
\* Moves accepted per game in one run: under Spec, where the game is created
\* with any colour, and under SpecPlay, where u1 creates it as white.
MaxMoves == 1
MaxPlayMoves == 3
\* Moves submitted to a game, written or not, under SpecFault, where the
\* durable write can fail.
MaxFaultMoves == 2
\* Days that pass in one run under SpecSession.
MaxClock == 8
\* Moves accepted per game and days that pass in one run under SpecLife.
MaxLifeMoves == 1
MaxLifeDays == 2

Users == {"u1", "u2", "u3"}
GameIds == {"g1"}
WebSockets == {"ws1", "ws2"}
\* the user whose browser opened the socket; the handler never reads it
ws_owner == [ws1 |-> "u1", ws2 |-> "u2"]
\* `color` is an unvalidated form field (create_game, main.py:288): besides
\* the two colours the page offers, any other string can be posted.
FormColors == {"white", "black", "red"}

None == "None"

\* the sockets that clients open on the presence channel
PresenceSockets == {"p1"}

\* secrets.token_hex(32): the session ids that can be issued
SessionIds == {"s1", "s2"}
\* timedelta(days=7), main.py:155
SESSION_DAYS == 7

\* --------------------------------------------------------- rule engine
\* python-chess is an external library.  It is modelled as a finite rule
\* table with the properties the handler relies on: the set of legal moves
\* depends on the position, a checkmate or stalemate position has no legal
\* move, a position with insufficient material still has legal moves, and
\* every push passes the move to the other side.
Files == {"a", "b", "c", "d", "e", "f", "g", "h"}
Ranks == {"1", "2", "3", "4", "5", "6", "7", "8"}
PIECE_SYMBOLS == {"p", "n", "b", "r", "q", "k"}

InvalidMoveError == [error |-> "InvalidMoveError"]
KeyError == [error |-> "KeyError"]
NullMove == [from_square |-> <<"0", "0">>, to_square |-> <<"0", "0">>, promotion |-> None]

IsSquareName(uci, i) == uci[i] \in Files /\ uci[i + 1] \in Ranks

\* chess.Move.from_uci: a string is a sequence of characters.
from_uci(uci) ==
    IF uci = <<"0", "0", "0", "0">> THEN NullMove
    ELSE IF /\ Len(uci) \in {4, 5}
            /\ IsSquareName(uci, 1)
            /\ IsSquareName(uci, 3)
            /\ (Len(uci) = 5 => uci[5] \in PIECE_SYMBOLS)
            /\ SubSeq(uci, 1, 2) # SubSeq(uci, 3, 4)
         THEN [from_square |-> SubSeq(uci, 1, 2),
               to_square   |-> SubSeq(uci, 3, 4),
               promotion   |-> IF Len(uci) = 5 THEN uci[5] ELSE None]
         ELSE InvalidMoveError

e2e4 == <<"e", "2", "e", "4">>
d1h5 == <<"d", "1", "h", "5">>
h5f7 == <<"h", "5", "f", "7">>
a1a2 == <<"a", "1", "a", "2">>
e1e2 == <<"e", "1", "e", "2">>
e2e5 == <<"e", "2", "e", "5">>

NoMoves == [m \in {} |-> "open"]

\* kind of position -> legal move -> kind of the resulting position
RuleTable ==
    [open   |-> (e2e4 :> "open") @@ (d1h5 :> "check") @@ (h5f7 :> "mate")
                 @@ (a1a2 :> "stale") @@ (e1e2 :> "insuff"),
     check  |-> (e1e2 :> "open") @@ (h5f7 :> "mate"),
     insuff |-> (e1e2 :> "insuff"),
     mate   |-> NoMoves,
     stale  |-> NoMoves]

\* chess.Board(): the starting position, white to move.
Board == [kind |-> "open", ply |-> 0]

MoveKey(move) == move.from_square \o move.to_square

is_legal(board, move) ==
    /\ move # NullMove
    /\ move.promotion = None
    /\ MoveKey(move) \in DOMAIN RuleTable[board.kind]

\* a push that leaves the side to move as it was
push_same_side(board, move) ==
    [kind |-> RuleTable[board.kind][MoveKey(move)], ply |-> board.ply]

push(board, move) ==
    [kind |-> RuleTable[board.kind][MoveKey(move)], ply |-> board.ply + 1]

is_checkmate(board) == board.kind = "mate"
is_stalemate(board) == board.kind = "stale"
is_insufficient_material(board) == board.kind = "insuff"
is_check(board) == board.kind \in {"check", "mate"}

\* board.fen(): the position, the side to move and the full-move number
fen(board) ==
    <<board.kind, IF board.ply % 2 = 0 THEN "w" ELSE "b", (board.ply \div 2) + 1>>

\* board.san(move): the target square with the check / mate suffix
san(board, move) ==
    move.to_square \o
        (IF is_checkmate(push(board, move)) THEN <<"#">>
         ELSE IF is_check(push(board, move)) THEN <<"+">>
         ELSE <<>>)

\* ------------------------------------------------------------------ state
VARIABLES
    games,          \* table games: game id -> row (DOMAIN = the rows present)
    game_players,   \* table game_players: game id -> rows in rowid order
    game_moves,     \* table game_moves: game id -> rows in rowid order
    connections,    \* GameManager.connections: game id -> list of websockets
    game_boards,    \* GameManager.game_boards
    game_turns,     \* GameManager.game_turns
    online_users,   \* the presence roster: user id -> [username, last_seen]
    ws_state,       \* websocket -> "new" | "open" | "dropped" | "closed" | "crashed"
    ws_game,        \* websocket -> game_id of its handler
    current_user,   \* websocket -> the handler's local current_user
    loaded_moves,   \* websocket -> length of the handler session's loaded game.moves, -1 when expired
    pc,             \* websocket -> "recv" | "bcast": where its handler waits
    bc,             \* websocket -> the fan-out its handler is in the middle of
    inbox,          \* websocket -> the move events the client has received
    last,           \* what the step just taken was and what it answered
    user_sessions,  \* the session cache: session id -> user id
    session_rows,   \* table user_sessions: session id -> row
    logout_pc,      \* session id -> the user a logout in flight resolved, or "idle"
    now,            \* datetime.now(), in days
    presence_connections,   \* the list presence_connections
    presence_state, \* presence client -> "new" | "open" | "closed"
    presence_inbox  \* presence client -> the messages it has received

vars == <<games, game_players, game_moves, connections, game_boards, game_turns,
          online_users, ws_state, ws_game, current_user, loaded_moves,
          pc, bc, inbox, last, user_sessions, session_rows, logout_pc, now,
          presence_connections, presence_state, presence_inbox>>

dbVars == <<games, game_players, game_moves>>
memVars == <<connections, game_boards, game_turns>>
wsVars == <<ws_state, ws_game, current_user, loaded_moves, pc, bc>>
authVars == <<user_sessions, session_rows, logout_pc>>
gameVars == <<dbVars, memVars, wsVars, inbox>>
presVars == <<presence_connections, presence_state, presence_inbox>>

NoMessage == [type |-> "none"]
NoBroadcast == [msg |-> NoMessage, rest |-> <<>>, live |-> FALSE]
\* `last` after a step that is neither a page request nor a receive
Other == [op |-> "other", who |-> None, game |-> None, msg |-> NoMessage, reply |-> NoMessage]

Init ==
    /\ games = <<>>
    /\ game_players = [g \in GameIds |-> <<>>]
    /\ game_moves = [g \in GameIds |-> <<>>]
    /\ connections = <<>>
    /\ game_boards = <<>>
    /\ game_turns = <<>>
    /\ online_users = <<>>
    /\ ws_state = [w \in WebSockets |-> "new"]
    /\ ws_game = [w \in WebSockets |-> None]
    /\ current_user = [w \in WebSockets |-> None]
    /\ loaded_moves = [w \in WebSockets |-> -1]
    /\ pc = [w \in WebSockets |-> "recv"]
    /\ bc = [w \in WebSockets |-> NoBroadcast]
    /\ inbox = [w \in WebSockets |-> <<>>]
    /\ last = Other
    /\ user_sessions = <<>>
    /\ session_rows = <<>>
    /\ logout_pc = [session_id \in SessionIds |-> "idle"]
    /\ now = 0
    /\ presence_connections = <<>>
    /\ presence_state = [p \in PresenceSockets |-> "new"]
    /\ presence_inbox = [p \in PresenceSockets |-> <<>>]

\* ------------------------------------------------------- inbound messages
MoveMessage(uci) == [type |-> "move", move |-> uci]

UciInputs == {e2e4, d1h5, h5f7, a1a2, e1e2, e2e5, <<"e", "2">>}

\* move submissions: moves, and a move message without its "move" key
Submissions == {MoveMessage(uci) : uci \in UciInputs} \cup {[type |-> "move"]}

\* what a client can send: submissions, a message of another type, and text
\* that is no JSON object with a "type"
Inbound == Submissions \cup {[type |-> "resign"], [text |-> "not json"]}

\* ------------------------------------------------------------ GameManager
\* dict assignment d[k] = v
DictSet(d, k, v) == (k :> v) @@ d

RECURSIVE Filter(_, _)
\* [ws for ws in list if ws != websocket]
Filter(list, websocket) ==
    IF list = <<>> THEN <<>>
    ELSE IF Head(list) = websocket THEN Filter(Tail(list), websocket)
    ELSE <<Head(list)>> \o Filter(Tail(list), websocket)

\* db.query(GamePlayer).filter(GamePlayer.game_id == game_id).count()
player_count(game_id) == Len(game_players[game_id])

\* main.py:79
joiner_color(creator_color) == IF creator_color = "white" THEN "black" ELSE "white"

\* db.query(GamePlayer).filter(game_id, user_id).first()
existing_player(game_id, user_id) ==
    \E i \in 1..Len(game_players[game_id]) : game_players[game_id][i].user_id = user_id

player_color_of(players, user_id) ==
    players[CHOOSE i \in 1..Len(players) :
                /\ players[i].user_id = user_id
                /\ \A j \in 1..(i - 1) : players[j].user_id # user_id].color

\* join_game without the count of the players taken before the insert
join_game_unchecked(game_id) == game_id \in DOMAIN games

\* join_game returns True
join_game_ok(game_id) == game_id \in DOMAIN games /\ ~(player_count(game_id) >= 2)

\* get_game_board handing out a new board on every call
new_game_board(game_id) == Board

get_game_board(game_id) ==
    IF game_id \notin DOMAIN game_boards THEN Board ELSE game_boards[game_id]

get_game_turn(game_id) ==
    IF game_id \in DOMAIN game_turns THEN game_turns[game_id] ELSE "white"

\* POST /create-game by a logged-in user
create_game(creator_id, creator_color) ==
    \E game_id \in GameIds \ DOMAIN games :
        /\ games' = DictSet(games, game_id,
               [creator_id |-> creator_id, joiner_id |-> None,
                creator_color |-> creator_color, status |-> "waiting",
                result |-> None, winner_id |-> None])
        /\ game_players' = [game_players EXCEPT ![game_id] =
               Append(@, [user_id |-> creator_id, color |-> creator_color])]
        /\ connections' = DictSet(connections, game_id, <<>>)
        /\ game_boards' = DictSet(game_boards, game_id, Board)
        /\ game_turns' = DictSet(game_turns, game_id, "white")
        /\ last' = Other
        /\ UNCHANGED <<game_moves, online_users, wsVars, inbox>>

\* the response of GET /game/{game_id}
Response(user_id, game_id, status, user_color) ==
    [op |-> "page", who |-> user_id, game |-> game_id, msg |-> NoMessage,
     reply |-> [type |-> "page", status |-> status, user_color |-> user_color]]

\* GET /game/{game_id} by a logged-in user: joins the user unless already a player
game_page(user_id, game_id) ==
    /\ UNCHANGED <<game_moves, connections, game_turns, online_users, wsVars, inbox>>
    /\ IF game_id \notin DOMAIN games
       THEN /\ last' = Response(user_id, game_id, "404 Game not found", None)
            /\ UNCHANGED <<games, game_players, game_boards>>
       ELSE IF ~existing_player(game_id, user_id) /\ ~join_game_ok(game_id)
       THEN /\ last' = Response(user_id, game_id, "400 Game is full", None)
            /\ UNCHANGED <<games, game_players, game_boards>>
       ELSE /\ IF existing_player(game_id, user_id)
               THEN UNCHANGED <<games, game_players>>
               ELSE /\ game_players' = [game_players EXCEPT ![game_id] =
                           Append(@, [user_id |-> user_id,
                                      color |-> joiner_color(games[game_id].creator_color)])]
                    /\ games' = [games EXCEPT ![game_id].status = "active",
                                              ![game_id].joiner_id = user_id]
            /\ game_boards' = DictSet(game_boards, game_id, get_game_board(game_id))
            /\ last' = Response(user_id, game_id, "200 OK",
                                player_color_of(game_players'[game_id], user_id))

\* ----------------------------------------------------------- online users
\* User.username of a user row
username_of(user_id) == <<"name", user_id>>

\* del d[k]
DictDel(d, k) == [x \in DOMAIN d \ {k} |-> d[x]]

\* add_online_user that leaves the entry of a user already online as it is
add_online_user_once(roster, user_id, username) ==
    IF user_id \in DOMAIN roster THEN roster
    ELSE DictSet(roster, user_id, [username |-> username, last_seen |-> now])

\* main.py:199-203
add_online_user(roster, user_id, username) ==
    DictSet(roster, user_id, [username |-> username, last_seen |-> now])

\* main.py:205-207
remove_online_user(roster, user_id) ==
    IF user_id \in DOMAIN roster THEN DictDel(roster, user_id) ELSE roster

\* main.py:209-210
get_online_users(roster) == {roster[user_id].username : user_id \in DOMAIN roster}

\* the elements of a list
Range(list) == {list[i] : i \in 1..Len(list)}

RECURSIVE OpenOnly(_)
\* the presence connections left after those whose send raised were removed
OpenOnly(list) ==
    IF list = <<>> THEN <<>>
    ELSE IF presence_state[Head(list)] = "open"
         THEN <<Head(list)>> \o OpenOnly(Tail(list))
         ELSE OpenOnly(Tail(list))

\* main.py:214-217 and main.py:464-467
OnlineUsersMessage(roster) ==
    [type |-> "online_users", users |-> get_online_users(roster)]

\* broadcast_online_users, main.py:212-226, with its sends taken together:
\* every presence connection gets the roster, and one whose send raises is
\* removed from presence_connections
broadcast_online_users(roster) ==
    /\ presence_inbox' =
          [p \in PresenceSockets |->
              IF p \in Range(presence_connections) /\ presence_state[p] = "open"
              THEN Append(presence_inbox[p], OnlineUsersMessage(roster))
              ELSE presence_inbox[p]]
    /\ presence_connections' = OpenOnly(presence_connections)
    /\ UNCHANGED presence_state

\* ----------------------------------------------------------------- sessions
\* what a session operation answered
Identity(op, session_id, user_id) ==
    [op |-> op, who |-> session_id, game |-> None, msg |-> NoMessage,
     reply |-> [type |-> "identity", user_id |-> user_id]]

\* create_session, main.py:153-168: a fresh id, the row, and the cache entry
create_session(user_id) ==
    \E session_id \in SessionIds \ DOMAIN session_rows :
        /\ session_rows' = DictSet(session_rows, session_id,
               [user_id |-> user_id, expires_at |-> now + SESSION_DAYS,
                is_active |-> TRUE])
        /\ user_sessions' = DictSet(user_sessions, session_id, user_id)
        /\ last' = Identity("issue", session_id, user_id)
        /\ UNCHANGED <<gameVars, presVars, online_users, logout_pc, now>>

\* the row that the query of main.py:176-180 finds
valid_row(session_id) ==
    /\ session_id \in DOMAIN session_rows
    /\ session_rows[session_id].is_active
    /\ session_rows[session_id].expires_at > now

\* what get_user_from_session returns, main.py:170-185
get_user_from_session(session_id) ==
    IF session_id \in DOMAIN user_sessions THEN user_sessions[session_id]
    ELSE IF valid_row(session_id) THEN session_rows[session_id].user_id
    ELSE None

\* the cache after get_user_from_session, main.py:183
cached(session_id) ==
    IF session_id \notin DOMAIN user_sessions /\ valid_row(session_id)
    THEN DictSet(user_sessions, session_id, session_rows[session_id].user_id)
    ELSE user_sessions

\* a request with the cookie session_id: get_current_user, main.py:229-235
get_current_user(session_id) ==
    /\ user_sessions' = cached(session_id)
    /\ last' = Identity("resolve", session_id, get_user_from_session(session_id))
    /\ UNCHANGED <<gameVars, presVars, online_users, session_rows, logout_pc, now>>

\* remove_session that leaves the cache entry in place
remove_session_row_only(session_id) ==
    /\ session_rows' = IF session_id \in DOMAIN session_rows
                       THEN [session_rows EXCEPT ![session_id].is_active = FALSE]
                       ELSE session_rows
    /\ user_sessions' = user_sessions

\* remove_session, main.py:187-196
remove_session(session_id) ==
    /\ session_rows' = IF session_id \in DOMAIN session_rows
                       THEN [session_rows EXCEPT ![session_id].is_active = FALSE]
                       ELSE session_rows
    /\ user_sessions' = IF session_id \in DOMAIN user_sessions
                        THEN DictDel(user_sessions, session_id)
                        ELSE user_sessions

\* POST /logout, main.py:273-281, up to its await: without an identity the
\* session is removed at once, with one the user leaves the roster and the
\* handler waits in broadcast_online_users
logout(session_id) ==
    /\ logout_pc[session_id] = "idle"
    /\ IF get_user_from_session(session_id) = None
       THEN /\ remove_session(session_id)
            /\ last' = Identity("revoke", session_id, None)
            /\ UNCHANGED <<online_users, logout_pc, presVars>>
       ELSE /\ user_sessions' = cached(session_id)
            /\ online_users' = remove_online_user(online_users,
                                                  get_user_from_session(session_id))
            /\ broadcast_online_users(online_users')
            /\ logout_pc' = [logout_pc EXCEPT ![session_id] =
                                 get_user_from_session(session_id)]
            /\ last' = Other
            /\ UNCHANGED session_rows
    /\ UNCHANGED <<gameVars, now>>

\* POST /logout after broadcast_online_users: remove_session, main.py:281
logout_end(session_id) ==
    /\ logout_pc[session_id] # "idle"
    /\ remove_session(session_id)
    /\ logout_pc' = [logout_pc EXCEPT ![session_id] = "idle"]
    /\ last' = Identity("revoke", session_id, logout_pc[session_id])
    /\ UNCHANGED <<gameVars, presVars, online_users, now>>

\* a day passes
Tick ==
    /\ now < MaxClock
    /\ now' = now + 1
    /\ last' = Other
    /\ UNCHANGED <<gameVars, presVars, online_users, authVars>>

\* ------------------------------------------------------ websocket routing
\* The websocket routes in the order in which the decorators register them:
\* /ws/{game_id} at main.py:339, /ws/presence at main.py:447.  A path is a
\* list of segments.
WebsocketRoutes ==
    <<[path |-> <<"ws", "{game_id}">>, endpoint |-> "websocket_endpoint"],
      [path |-> <<"ws", "presence">>,  endpoint |-> "presence_websocket"]>>

\* a path parameter matches any segment
matches(route_path, path) ==
    /\ Len(route_path) = Len(path)
    /\ \A i \in 1..Len(path) :
          route_path[i] = "{game_id}" \/ route_path[i] = path[i]

\* the router hands a connection to the first route that matches its path
route(path) ==
    IF \E i \in 1..Len(WebsocketRoutes) : matches(WebsocketRoutes[i].path, path)
    THEN WebsocketRoutes[CHOOSE i \in 1..Len(WebsocketRoutes) :
             /\ matches(WebsocketRoutes[i].path, path)
             /\ \A j \in 1..(i - 1) : ~matches(WebsocketRoutes[j].path, path)].endpoint
    ELSE None

\* -------------------------------------------------------- presence channel
\* the path a presence client connects to
PresencePath == <<"ws", "presence">>

\* presence_websocket up to its receive loop, main.py:448-450
presence_accept(websocket) ==
    /\ presence_state' = [presence_state EXCEPT ![websocket] = "open"]
    /\ presence_connections' = Append(presence_connections, websocket)
    /\ UNCHANGED <<presence_inbox, online_users>>

\* websocket_endpoint for a path whose last segment names no game,
\* main.py:347-350: the socket is closed
endpoint_closes(websocket) ==
    /\ PresencePath[2] \notin DOMAIN games
    /\ presence_state' = [presence_state EXCEPT ![websocket] = "closed"]
    /\ UNCHANGED <<presence_connections, presence_inbox, online_users>>

\* a ping, main.py:457-467: the last_seen of a user who is online is
\* refreshed and the roster is sent back
presence_ping(websocket, user_id) ==
    /\ online_users' = IF user_id # None /\ user_id \in DOMAIN online_users
                       THEN [online_users EXCEPT ![user_id].last_seen = now]
                       ELSE online_users
    /\ presence_inbox' = [presence_inbox EXCEPT ![websocket] =
                              Append(@, OnlineUsersMessage(online_users'))]
    /\ UNCHANGED <<presence_connections, presence_state>>

\* except WebSocketDisconnect, main.py:469-471
presence_disconnect(websocket) ==
    /\ presence_state' = [presence_state EXCEPT ![websocket] = "closed"]
    /\ presence_connections' = Filter(presence_connections, websocket)
    /\ UNCHANGED <<presence_inbox, online_users>>

\* A step of a presence client: it connects to /ws/presence and the router
\* picks the handler; on an open socket it sends a ping in the name of
\* user_id, or it goes away.
presence_client(websocket, user_id, leaves) ==
    /\ presence_state[websocket] # "closed"
    /\ IF presence_state[websocket] = "new"
       THEN IF route(PresencePath) = "presence_websocket"
            THEN presence_accept(websocket)
            ELSE endpoint_closes(websocket)
       ELSE IF leaves
            THEN presence_disconnect(websocket)
            ELSE presence_ping(websocket, user_id)
    /\ last' = [op |-> "presence", who |-> websocket, game |-> None,
                msg |-> NoMessage, reply |-> NoMessage]
    /\ UNCHANGED <<gameVars, authVars, now>>

\* ------------------------------------------------------ websocket handler
\* A list object that add_connection appends to in place is the one a
\* running `for connection in self.connections[game_id]` walks, so the loop
\* sees the new element; remove_connection binds a new list, and a loop
\* that runs then goes on over the old one.
add_connection(game_id, websocket) ==
    /\ connections' = DictSet(connections, game_id,
           Append(IF game_id \in DOMAIN connections THEN connections[game_id] ELSE <<>>,
                  websocket))
    /\ bc' = [w \in WebSockets |->
                 IF pc[w] = "bcast" /\ ws_game[w] = game_id /\ bc[w].live
                 THEN [bc[w] EXCEPT !.rest = Append(@, websocket)]
                 ELSE bc[w]]

remove_connection(game_id, websocket) ==
    IF game_id \in DOMAIN connections
    THEN /\ connections' = [connections EXCEPT ![game_id] = Filter(@, websocket)]
         /\ bc' = [w \in WebSockets |->
                      IF pc[w] = "bcast" /\ ws_game[w] = game_id
                      THEN [bc[w] EXCEPT !.live = FALSE]
                      ELSE bc[w]]
    ELSE UNCHANGED <<connections, bc>>

\* main.py:354-360: the first player of the game whose user row exists
first_player(game_id) ==
    IF game_players[game_id] = <<>> THEN None ELSE game_players[game_id][1].user_id

\* websocket_endpoint up to its receive loop, for a socket opened by `user_id`
ws_connect(websocket, user_id, game_id) ==
    /\ ws_state[websocket] = "new"
    /\ ws_owner[websocket] = user_id
    /\ route(<<"ws", game_id>>) = "websocket_endpoint"
    /\ UNCHANGED <<dbVars, game_boards, game_turns, loaded_moves, pc, inbox>>
    /\ IF game_id \notin DOMAIN games
       THEN /\ ws_state' = [ws_state EXCEPT ![websocket] = "closed"]
            /\ last' = Other
            /\ UNCHANGED <<connections, bc, ws_game, current_user, online_users,
                           presVars>>
       ELSE /\ ws_state' = [ws_state EXCEPT ![websocket] = "open"]
            /\ ws_game' = [ws_game EXCEPT ![websocket] = game_id]
            /\ add_connection(game_id, websocket)
            /\ current_user' = [current_user EXCEPT ![websocket] = first_player(game_id)]
            /\ online_users' = IF first_player(game_id) # None
                               THEN add_online_user(online_users, first_player(game_id),
                                                    username_of(first_player(game_id)))
                               ELSE online_users
            /\ IF first_player(game_id) # None
               THEN broadcast_online_users(online_users')
               ELSE UNCHANGED presVars
            /\ last' = Other

\* len(game.moves): the relationship is loaded on first use and after the
\* session's own commit expired it; between two commits of this session it
\* is the list loaded last
len_game_moves(websocket) ==
    IF loaded_moves[websocket] = -1
    THEN Len(game_moves[ws_game[websocket]])
    ELSE loaded_moves[websocket]

RECURSIVE InsertByNumber(_, _)
InsertByNumber(sorted, row) ==
    IF sorted = <<>> THEN <<row>>
    ELSE IF sorted[Len(sorted)].move_number <= row.move_number THEN Append(sorted, row)
    ELSE Append(InsertByNumber(SubSeq(sorted, 1, Len(sorted) - 1), row), sorted[Len(sorted)])

RECURSIVE OrderByMoveNumber(_)
\* relationship(order_by="GameMove.move_number"), rows of equal number in rowid order
OrderByMoveNumber(rows) ==
    IF rows = <<>> THEN <<>>
    ELSE InsertByNumber(OrderByMoveNumber(SubSeq(rows, 1, Len(rows) - 1)), rows[Len(rows)])

\* main.py:401-418
game_status(board) ==
    IF is_checkmate(board) THEN "checkmate"
    ELSE IF is_stalemate(board) THEN "stalemate"
    ELSE IF is_insufficient_material(board) THEN "draw"
    ELSE "ongoing"

\* main.py:383-394
GameMove(websocket, uci, chess_board) ==
    [player_id    |-> IF current_user[websocket] # None THEN current_user[websocket] ELSE "",
     move_number  |-> len_game_moves(websocket) + 1,
     move_uci     |-> uci,
     move_san     |-> san(chess_board, from_uci(uci)),
     fen_after    |-> fen(chess_board),
     is_check     |-> is_check(chess_board),
     is_checkmate |-> is_checkmate(chess_board),
     is_stalemate |-> is_stalemate(chess_board),
     is_draw      |-> is_insufficient_material(chess_board)]

\* the winner_id written with a checkmate, main.py:407
winner_of(websocket) ==
    IF current_user[websocket] # None THEN current_user[websocket] ELSE None

\* one pass of the receive loop: the message read, and what the handler sent
\* back to the sender alone
Received(websocket, message, reply) ==
    [op |-> "recv", who |-> websocket, game |-> ws_game[websocket],
     msg |-> message, reply |-> reply]

\* the turn set to black by every move
turn_to_black(turn) == "black"

\* main.py:399
flip_turn(turn) == IF turn = "white" THEN "black" ELSE "white"

\* the move is legal: main.py:377-432, up to the first send of the fan-out
accept_move(websocket, uci) ==
    LET game_id     == ws_game[websocket]
        chess_board == get_game_board(game_id)
        pushed      == push(chess_board, from_uci(uci))
        status      == game_status(pushed)
        turn        == flip_turn(game_turns[game_id])
        rows        == Append(game_moves[game_id], GameMove(websocket, uci, chess_board))
    IN  /\ game_moves' = [game_moves EXCEPT ![game_id] = rows]
        /\ game_boards' = DictSet(game_boards, game_id, pushed)
        /\ game_turns' = DictSet(game_turns, game_id, turn)
        /\ games' = IF status = "ongoing" THEN games
                    ELSE [games EXCEPT ![game_id] =
                             [@ EXCEPT !.status = "completed",
                                       !.result = status,
                                       !.winner_id = IF status = "checkmate"
                                                     THEN winner_of(websocket) ELSE @]]
        /\ loaded_moves' = [loaded_moves EXCEPT ![websocket] = Len(rows)]
        /\ pc' = [pc EXCEPT ![websocket] = "bcast"]
        /\ bc' = [bc EXCEPT ![websocket] =
               [msg  |-> [type |-> "move", fen |-> fen(pushed), turn |-> turn,
                          move_history |-> [i \in 1..Len(rows) |->
                                               OrderByMoveNumber(rows)[i].move_san],
                          game_status |-> status],
                rest |-> connections[game_id],
                live |-> TRUE]]
        /\ last' = Received(websocket, MoveMessage(uci), NoMessage)
        /\ UNCHANGED <<game_players, connections, online_users, ws_state,
                       ws_game, current_user, inbox>>

\* except Exception as e: the error reply, main.py:433-437
error_reply(websocket, message, e) ==
    /\ last' = Received(websocket, message, [type |-> "error", message |-> e.error])
    /\ UNCHANGED <<dbVars, memVars, online_users, wsVars, inbox>>

\* the turn flipped outside `if chess_board.is_legal(move)`
not_legal_flips_turn(websocket, message) ==
    /\ last' = Received(websocket, message, NoMessage)
    /\ game_turns' = DictSet(game_turns, ws_game[websocket],
                             flip_turn(game_turns[ws_game[websocket]]))
    /\ UNCHANGED <<dbVars, connections, game_boards, online_users, wsVars, inbox>>

\* `if chess_board.is_legal(move)` has no else: nothing is done, nothing is sent
not_legal(websocket, message) ==
    /\ last' = Received(websocket, message, NoMessage)
    /\ game_boards' = DictSet(game_boards, ws_game[websocket],
                              get_game_board(ws_game[websocket]))
    /\ UNCHANGED <<dbVars, connections, game_turns, online_users, wsVars, inbox>>

\* the exception of a db.commit() that cannot write
OperationalError == [error |-> "OperationalError"]

\* loaded_moves of a session whose commit failed: its transaction has to be
\* rolled back before the session can be used again, and the handler never
\* calls rollback
FailedTransaction == -2

\* the message is a move that parses and is legal on the game's board
is_accepted(websocket, message) ==
    /\ "type" \in DOMAIN message
    /\ message.type = "move"
    /\ "move" \in DOMAIN message
    /\ from_uci(message.move) # InvalidMoveError
    /\ is_legal(get_game_board(ws_game[websocket]), from_uci(message.move))

\* The move is legal and db.commit() raises at main.py:420: nothing is
\* written, but the board was pushed at main.py:398 and the turn flipped at
\* main.py:399; `except Exception` answers the sender with the error.
commit_fails(websocket, message) ==
    LET game_id     == ws_game[websocket]
        chess_board == get_game_board(game_id)
    IN  /\ ws_state[websocket] = "open"
        /\ pc[websocket] = "recv"
        /\ loaded_moves[websocket] # FailedTransaction
        /\ is_accepted(websocket, message)
        /\ game_boards' = DictSet(game_boards, game_id,
                                  push(chess_board, from_uci(message.move)))
        /\ game_turns' = DictSet(game_turns, game_id, flip_turn(game_turns[game_id]))
        /\ loaded_moves' = [loaded_moves EXCEPT ![websocket] = FailedTransaction]
        /\ last' = Received(websocket, message,
                            [type |-> "error", message |-> OperationalError.error])
        /\ UNCHANGED <<dbVars, connections, online_users, ws_state, ws_game,
                       current_user, pc, bc, inbox>>

\* one pass of the receive loop, main.py:367-437
ws_receive(websocket, message) ==
    /\ ws_state[websocket] = "open"
    /\ pc[websocket] = "recv"
    /\ IF "type" \notin DOMAIN message
       THEN \* json.loads or message["type"] raises outside the inner try: the
            \* handler ends through `finally` alone
            /\ ws_state' = [ws_state EXCEPT ![websocket] = "crashed"]
            /\ last' = Received(websocket, message, NoMessage)
            /\ UNCHANGED <<dbVars, memVars, online_users, ws_game,
                           current_user, loaded_moves, pc, bc, inbox>>
       ELSE IF message.type # "move"
       THEN /\ last' = Received(websocket, message, NoMessage)
            /\ UNCHANGED <<dbVars, memVars, online_users, wsVars, inbox>>
       ELSE IF "move" \notin DOMAIN message
       THEN error_reply(websocket, message, KeyError)
       ELSE IF from_uci(message.move) = InvalidMoveError
       THEN error_reply(websocket, message, InvalidMoveError)
       ELSE IF is_accepted(websocket, message)
       THEN accept_move(websocket, message.move)
       ELSE not_legal(websocket, message)

\* broadcast_to_game leaving its loop at the first send that raises
broadcast_step_aborts(websocket) ==
    LET connection == Head(bc[websocket].rest)
        rest       == IF ws_state[connection] = "open"
                      THEN Tail(bc[websocket].rest) ELSE <<>>
    IN  /\ pc[websocket] = "bcast"
        /\ inbox' = IF ws_state[connection] = "open"
                    THEN [inbox EXCEPT ![connection] = Append(@, bc[websocket].msg)]
                    ELSE inbox
        /\ IF rest = <<>>
           THEN /\ pc' = [pc EXCEPT ![websocket] = "recv"]
                /\ bc' = [bc EXCEPT ![websocket] = NoBroadcast]
           ELSE /\ bc' = [bc EXCEPT ![websocket].rest = rest]
                /\ UNCHANGED pc
        /\ last' = Other
        /\ UNCHANGED <<dbVars, memVars, online_users, ws_state, ws_game,
                       current_user, loaded_moves>>

\* broadcast_to_game: one iteration of the loop, main.py:117-121
broadcast_step(websocket) ==
    LET connection == Head(bc[websocket].rest)
        rest       == Tail(bc[websocket].rest)
    IN  /\ pc[websocket] = "bcast"
        /\ inbox' = IF ws_state[connection] = "open"
                    THEN [inbox EXCEPT ![connection] = Append(@, bc[websocket].msg)]
                    ELSE inbox      \* send_text raises; the bare except passes
        /\ IF rest = <<>>
           THEN /\ pc' = [pc EXCEPT ![websocket] = "recv"]
                /\ bc' = [bc EXCEPT ![websocket] = NoBroadcast]
           ELSE /\ bc' = [bc EXCEPT ![websocket].rest = rest]
                /\ UNCHANGED pc
        /\ last' = Other
        /\ UNCHANGED <<dbVars, memVars, online_users, ws_state, ws_game,
                       current_user, loaded_moves>>

\* the client goes away; the handler learns of it at its next receive_text
client_drop(websocket) ==
    /\ ws_state[websocket] = "open"
    /\ ws_state' = [ws_state EXCEPT ![websocket] = "dropped"]
    /\ last' = Other
    /\ UNCHANGED <<dbVars, memVars, online_users, ws_game, current_user,
                   loaded_moves, pc, bc, inbox>>

\* except WebSocketDisconnect, main.py:439-445
ws_disconnect(websocket) ==
    /\ ws_state[websocket] = "dropped"
    /\ pc[websocket] = "recv"
    /\ ws_state' = [ws_state EXCEPT ![websocket] = "closed"]
    /\ remove_connection(ws_game[websocket], websocket)
    /\ online_users' = IF current_user[websocket] # None
                       THEN remove_online_user(online_users, current_user[websocket])
                       ELSE online_users
    /\ IF current_user[websocket] # None
       THEN broadcast_online_users(online_users')
       ELSE UNCHANGED presVars
    /\ last' = Other
    /\ UNCHANGED <<dbVars, game_boards, game_turns, ws_game, current_user,
                   loaded_moves, pc, inbox>>

\* The environment: who creates games with which colours, who opens a game's
\* page, what the clients send and how many moves a game is fed.  No game
\* handler touches the sessions, and none lets time pass.
Env(creators, colors, visitors, inbound, max_moves) ==
    \/ \E u \in creators, c \in colors :
          create_game(u, c) /\ UNCHANGED <<authVars, presVars, now>>
    \/ \E u \in visitors, g \in GameIds :
          game_page(u, g) /\ UNCHANGED <<authVars, presVars, now>>
    \/ \E w \in WebSockets, g \in GameIds :
          ws_connect(w, ws_owner[w], g) /\ UNCHANGED <<authVars, now>>
    \/ \E w \in WebSockets, m \in inbound :
          /\ ws_state[w] = "open"
          /\ is_accepted(w, m) => Len(game_moves[ws_game[w]]) < max_moves
          /\ ws_receive(w, m)
          /\ UNCHANGED <<authVars, presVars, now>>
    \/ \E w \in WebSockets :
          broadcast_step(w) /\ UNCHANGED <<authVars, presVars, now>>
    \/ \E w \in WebSockets :
          client_drop(w) /\ UNCHANGED <<authVars, presVars, now>>
    \/ \E w \in WebSockets :
          ws_disconnect(w) /\ UNCHANGED <<authVars, now>>

\* u1 owns a socket and u3 owns none; a game created by u2 is one created by
\* u1 with the two sockets renamed
Creators == {"u1", "u3"}

Next == Env(Creators, FormColors, Users, Submissions, MaxMoves)

Spec == Init /\ [][Next]_vars

PlayInbound == {MoveMessage(uci) : uci \in {e2e4, e1e2, h5f7, e2e5}}

NextPlay == Env({"u1"}, {"white"}, {"u2"}, PlayInbound, MaxPlayMoves)

SpecPlay == Init /\ [][NextPlay]_vars

\* The game of SpecPlay on a database whose writes can fail.  A connection
\* whose commit failed is fed no further legal move: what its session does
\* with the unwritten row afterwards is the library's business.
NextFault ==
    \/ \E u \in {"u1"}, c \in {"white"} :
          create_game(u, c) /\ UNCHANGED <<authVars, presVars, now>>
    \/ \E u \in {"u2"}, g \in GameIds :
          game_page(u, g) /\ UNCHANGED <<authVars, presVars, now>>
    \/ \E w \in WebSockets, g \in GameIds :
          ws_connect(w, ws_owner[w], g) /\ UNCHANGED <<authVars, now>>
    \/ \E w \in WebSockets, m \in PlayInbound :
          /\ ws_state[w] = "open"
          /\ is_accepted(w, m) =>
                /\ Len(game_moves[ws_game[w]]) < MaxFaultMoves
                /\ get_game_board(ws_game[w]).ply < MaxFaultMoves
                /\ loaded_moves[w] # FailedTransaction
          /\ ws_receive(w, m)
          /\ UNCHANGED <<authVars, presVars, now>>
    \/ \E w \in WebSockets, m \in PlayInbound :
          /\ ws_state[w] = "open"
          /\ get_game_board(ws_game[w]).ply < MaxFaultMoves
          /\ commit_fails(w, m)
          /\ UNCHANGED <<authVars, presVars, now>>
    \/ \E w \in WebSockets :
          broadcast_step(w) /\ UNCHANGED <<authVars, presVars, now>>
    \/ \E w \in WebSockets :
          client_drop(w) /\ UNCHANGED <<authVars, presVars, now>>
    \/ \E w \in WebSockets :
          ws_disconnect(w) /\ UNCHANGED <<authVars, now>>

SpecFault == Init /\ [][NextFault]_vars

\* The sessions alone: logins, requests carrying a cookie, logouts, and time.
SessionUsers == {"u1", "u2"}

NextSession ==
    \/ \E u \in SessionUsers : create_session(u)
    \/ \E session_id \in SessionIds : get_current_user(session_id)
    \/ \E session_id \in SessionIds : logout(session_id)
    \/ \E session_id \in SessionIds : logout_end(session_id)
    \/ Tick

SpecSession == Init /\ [][NextSession]_vars

\* The life of the connections of one game: the clients also send messages
\* of another type and text that is no JSON object with a "type", days
\* pass between the connects, and a client uses the presence channel.
LifeInbound == {MoveMessage(e2e4), [type |-> "resign"], [text |-> "not json"]}

NextLife ==
    \/ Env({"u1"}, {"white"}, {"u2"}, LifeInbound, MaxLifeMoves)
    \/ now < MaxLifeDays /\ Tick
    \/ \E p \in PresenceSockets, u \in {"u1", None}, leaves \in BOOLEAN :
          presence_client(p, u, leaves)

SpecLife == Init /\ [][NextLife]_vars

\* ================================================================ claims
\* the step appends a move record to game g: a move was accepted
Accepted(g) == Len(game_moves'[g]) = Len(game_moves[g]) + 1

\* the step is one pass of a receive loop of game g that read a move submission
Submitted(g) ==
    /\ last'.op = "recv"
    /\ last'.game = g
    /\ "type" \in DOMAIN last'.msg
    /\ last'.msg.type = "move"

\* the submission cannot be parsed, or is not legal on game g's board
Failed(g) ==
    \/ "move" \notin DOMAIN last'.msg
    \/ from_uci(last'.msg.move) = InvalidMoveError
    \/ ~is_legal(game_boards[g], from_uci(last'.msg.move))

\* the user holds the slot of game g whose colour is the game's turn
HoldsTurn(g, user_id) ==
    \E i \in 1..Len(game_players[g]) :
        /\ game_players[g][i].user_id = user_id
        /\ game_players[g][i].color = game_turns[g]

\* C1: the move_number values of a game's persisted move records are exactly
\* 1..n, with no gap and no duplicate, whatever the interleaving of the
\* submissions over the game's connections.
C1_MoveNumbersGapFree ==
    \A g \in GameIds :
        {game_moves[g][i].move_number : i \in 1..Len(game_moves[g])}
            = 1..Len(game_moves[g])

\* C2: a game has at most two player slots, held by distinct users, and two
\* filled slots are exactly one white and one black, whatever colour the
\* creator requested.
C2_TwoSlotsOppositeColors ==
    \A g \in DOMAIN games :
        LET slots == game_players[g]
        IN  /\ Len(slots) <= 2
            /\ \A i, j \in 1..Len(slots) : i # j => slots[i].user_id # slots[j].user_id
            /\ Len(slots) = 2 => {slots[1].color, slots[2].color} = {"white", "black"}

\* C3: of the join requests of different non-player users against a Waiting
\* game exactly one succeeds: the first to run gets the slot with the colour
\* opposite the creator's and turns the game Active, and a non-player asking
\* for a game whose two slots are taken gets "Game is full" and is not recorded.
C3_OneJoinerWins ==
    [][\A g \in DOMAIN games :
          (last'.op = "page" /\ last'.game = g /\ ~existing_player(g, last'.who)) =>
              /\ (games[g].status = "waiting" /\ Len(game_players[g]) = 1) =>
                    /\ last'.reply.status = "200 OK"
                    /\ Len(game_players'[g]) = 2
                    /\ game_players'[g][2].user_id = last'.who
                    /\ games[g].creator_color = "white" => game_players'[g][2].color = "black"
                    /\ games[g].creator_color = "black" => game_players'[g][2].color = "white"
                    /\ games'[g].status = "active"
              /\ Len(game_players[g]) >= 2 =>
                    /\ last'.reply.status = "400 Game is full"
                    /\ game_players'[g] = game_players[g]
                    /\ games'[g] = games[g]]_vars

\* a second joiner was refused after the first one made the game Active
C3_SecondJoinerRefused ==
    \E g \in DOMAIN games :
        /\ last.op = "page"
        /\ last.game = g
        /\ last.reply.status = "400 Game is full"
        /\ games[g].status = "active"
        /\ Len(game_players[g]) = 2
        /\ game_players[g][2].user_id # last.who

C5_CompletedGameFrozen ==
    [][\A g \in DOMAIN games :
          (games[g].status = "completed" /\ Submitted(g)) =>
              /\ game_boards'[g] = game_boards[g]
              /\ game_turns'[g] = game_turns[g]
              /\ game_moves'[g] = game_moves[g]
              /\ games'[g] = games[g]
              /\ pc' = pc
              /\ bc' = bc]_vars

\* C6: a move is accepted only when the user behind the submitting connection
\* holds the slot whose colour is the game's turn.
C6_OnlyPlayerToMove ==
    [][\A g \in DOMAIN games :
          (Submitted(g) /\ Accepted(g)) => HoldsTurn(g, ws_owner[last'.who])]_vars

\* C7: a move is accepted only while the game's status is Active.
C7_AcceptedOnlyWhileActive ==
    [][\A g \in DOMAIN games : Accepted(g) => games[g].status = "active"]_vars

\* C8: a submission that is unparseable or illegal on the current board leaves
\* the position, the turn, the move log and the game record as they were and
\* sends nothing to the game's subscribers.
C8_FailedSubmissionChangesNothing ==
    [][\A g \in DOMAIN games :
          (Submitted(g) /\ Failed(g)) =>
              /\ game_boards'[g] = game_boards[g]
              /\ game_turns' = game_turns
              /\ game_moves' = game_moves
              /\ games' = games
              /\ pc' = pc
              /\ bc' = bc
              /\ inbox' = inbox]_vars

\* after an accepted move that gave check, a move that was legal before it was
\* submitted and found illegal
C8_IllegalAfterCheck ==
    \E g \in DOMAIN games :
        /\ last.op = "recv"
        /\ last.game = g
        /\ last.msg = MoveMessage(a1a2)
        /\ game_boards[g].kind = "check"
        /\ Len(game_moves[g]) = 1

\* C9: every failed move submission, malformed or illegal, is answered to the
\* submitting connection with a message of type "error".
C9_FailedSubmissionAnswered ==
    [][\A g \in DOMAIN games :
          (Submitted(g) /\ Failed(g)) =>
              last'.reply.type = "error"]_vars

\* C10: an accepted move that gives checkmate completes the game with result
\* checkmate and the submitting user as winner; one that gives stalemate or a
\* draw completes it with no winner.
C10_WinnerIsTheMover ==
    [][\A g \in DOMAIN games :
          (Submitted(g) /\ Accepted(g)) =>
              /\ is_checkmate(game_boards'[g]) =>
                    /\ games'[g].status = "completed"
                    /\ games'[g].result = "checkmate"
                    /\ games'[g].winner_id = ws_owner[last'.who]
              /\ (is_stalemate(game_boards'[g])
                      \/ is_insufficient_material(game_boards'[g])) =>
                    /\ games'[g].status = "completed"
                    /\ games'[g].winner_id = None]_vars

\* C11: a move whose durable write fails has no effect in memory: a submission
\* that adds no record to the move log leaves the game's board and turn as
\* they were, so the board is never ahead of the log.
C11_FailedWriteLeavesMemory ==
    [][\A g \in DOMAIN games :
          (Submitted(g) /\ ~Accepted(g)) =>
              /\ get_game_board(g)' = get_game_board(g)
              /\ game_turns'[g] = game_turns[g]]_vars

\* C12: the presence roster is exactly the set of users with an open
\* connection: the user behind every open connection is in the roster, and
\* every user in the roster has a connection that the server has not yet seen
\* close.
C12_RosterIsOpenConnections ==
    /\ \A w \in WebSockets :
          ws_state[w] = "open" => ws_owner[w] \in DOMAIN online_users
    /\ \A u \in DOMAIN online_users :
          \E w \in WebSockets : ws_owner[w] = u /\ ws_state[w] \in {"open", "dropped"}

\* the durable record of the session was made inactive by a revoke
Revoked(session_id) ==
    /\ session_id \in DOMAIN session_rows
    /\ ~session_rows[session_id].is_active

\* C13: issuing a session leaves it in the cache and resolving to the issuing
\* user; once a revoke has returned, the cache entry is gone and every resolve
\* of the session returns no identity, however often it was resolved before.
C13_SessionRoundTrip ==
    [][\A session_id \in SessionIds :
          /\ (last'.op = "issue" /\ last'.who = session_id) =>
                /\ session_id \in DOMAIN user_sessions'
                /\ user_sessions'[session_id] = last'.reply.user_id
                /\ get_user_from_session(session_id)' = last'.reply.user_id
          /\ (last'.op = "revoke" /\ last'.who = session_id) =>
                /\ session_id \notin DOMAIN user_sessions'
                /\ get_user_from_session(session_id)' = None
          /\ (last'.op = "resolve" /\ last'.who = session_id /\ Revoked(session_id)) =>
                /\ last'.reply.user_id = None
                /\ session_id \notin DOMAIN user_sessions']_vars

\* a session that was revoked before its expiry time has just been resolved
\* to no identity
C13_ResolvedAfterRevoke ==
    \E session_id \in SessionIds :
        /\ last.op = "resolve"
        /\ last.who = session_id
        /\ last.reply.user_id = None
        /\ Revoked(session_id)
        /\ session_rows[session_id].expires_at > now

\* C14: every session in the cache has a durable record that is active and
\* not expired, so a session whose expiry time has passed resolves to no
\* identity even if it was cached before.
C14_CacheWithinValidRows ==
    \A session_id \in SessionIds :
        /\ session_id \in DOMAIN user_sessions => valid_row(session_id)
        /\ (session_id \in DOMAIN session_rows
                /\ session_rows[session_id].expires_at <= now) =>
              get_user_from_session(session_id) = None

\* the step is one iteration of the fan-out that the handler of w is in
FanOutStep(w) ==
    /\ pc[w] = "bcast"
    /\ \/ pc'[w] = "recv"
       \/ Len(bc'[w].rest) < Len(bc[w].rest)

\* C15: a delivery that fails never aborts the fan-out: every iteration hands
\* the event to its subscriber if that one is live, and goes on with all the
\* subscribers after it, whether or not the delivery failed.
C15_FanOutSurvivesFailure ==
    [][\A w \in WebSockets :
          FanOutStep(w) =>
              LET connection == Head(bc[w].rest)
              IN  /\ ws_state[connection] = "open" =>
                        inbox'[connection] = Append(inbox[connection], bc[w].msg)
                  /\ Tail(bc[w].rest) # <<>> =>
                        /\ pc'[w] = "bcast"
                        /\ bc'[w].msg = bc[w].msg
                        /\ bc'[w].rest = Tail(bc[w].rest)]_vars

\* the second subscriber of a game got the event of a move that the first
\* one, whose client was gone, did not get
C15_DeliveredPastDeadConnection ==
    \E g \in DOMAIN connections :
        /\ connections[g] = <<"ws1", "ws2">>
        /\ ws_state["ws1"] = "dropped"
        /\ ws_state["ws2"] = "open"
        /\ inbox["ws1"] = <<>>
        /\ Len(inbox["ws2"]) = 1

\* C16: a connection to which delivery failed is removed from the game's
\* subscriber set: when the fan-out ends with a delivery that fails, the set
\* does not contain that connection afterwards.
C16_FailedConnectionRemoved ==
    [][\A w \in WebSockets :
          (FanOutStep(w) /\ pc'[w] = "recv"
              /\ ws_state[Head(bc[w].rest)] # "open") =>
              Head(bc[w].rest) \notin Range(connections'[ws_game[w]])]_vars

\* C17: every subscriber receives the move events of a game in the order in
\* which the moves were accepted, also when the fan-outs of two moves overlap.
C17_EventsInAcceptOrder ==
    \A w \in WebSockets :
        \A i, j \in 1..Len(inbox[w]) :
            i < j => Len(inbox[w][i].move_history) < Len(inbox[w][j].move_history)

\* C18: a connection whose handler has ended, by a disconnect or by a failure
\* while reading a message, is not in the game's fan-out set.
C18_EndedHandlerUnsubscribed ==
    \A w \in WebSockets :
        (ws_state[w] \in {"closed", "crashed"} /\ ws_game[w] \in DOMAIN connections) =>
            w \notin Range(connections[ws_game[w]])

\* C19: marking a user online who is online already leaves one roster entry
\* for that user and the same set of users, with the last-activity time
\* refreshed; marking the user offline removes the entry with one call.
C19_MarkOnlineIdempotent ==
    [][\A w \in WebSockets :
          /\ (ws_state[w] = "new" /\ ws_state'[w] = "open") =>
                LET user_id == current_user'[w]
                IN  /\ DOMAIN online_users' = DOMAIN online_users \cup {user_id}
                    /\ online_users'[user_id] =
                          [username |-> username_of(user_id), last_seen |-> now]
                    /\ get_online_users(online_users') =
                          get_online_users(online_users) \cup {username_of(user_id)}
                    /\ \A u \in DOMAIN online_users \ {user_id} :
                          online_users'[u] = online_users[u]
          /\ (ws_state[w] = "dropped" /\ ws_state'[w] = "closed") =>
                /\ DOMAIN online_users' = DOMAIN online_users \ {current_user[w]}
                /\ \A u \in DOMAIN online_users' : online_users'[u] = online_users[u]]_vars

\* the creator was marked online by both connections, the second time on a
\* later day
C19_MarkedTwice ==
    /\ ws_state["ws1"] = "open"
    /\ ws_state["ws2"] = "open"
    /\ now > 0
    /\ DOMAIN online_users = {"u1"}
    /\ online_users["u1"].last_seen = now

\* C20: a game's status only moves forward from Waiting to Active to
\* Completed: never from Waiting straight to Completed, and never from
\* Completed back to Active or Waiting.
C20_StatusMovesForward ==
    [][\A g \in DOMAIN games :
          \/ games'[g].status = games[g].status
          \/ games[g].status = "waiting" /\ games'[g].status = "active"
          \/ games[g].status = "active" /\ games'[g].status = "completed"]_vars

\* C21: a persisted move record describes the state after its move: the
\* record an accepted move appends carries the position that the move leads
\* to, which is the position of the move's broadcast, and the check,
\* checkmate, stalemate and draw flags of that position.
C21_RecordDescribesResult ==
    [][\A g \in DOMAIN games :
          (Submitted(g) /\ Accepted(g)) =>
              LET record == game_moves'[g][Len(game_moves'[g])]
                  after  == game_boards'[g]
              IN  /\ record.fen_after = fen(after)
                  /\ record.fen_after = bc'[last'.who].msg.fen
                  /\ record.is_check = is_check(after)
                  /\ record.is_checkmate = is_checkmate(after)
                  /\ record.is_stalemate = is_stalemate(after)
                  /\ record.is_draw = is_insufficient_material(after)]_vars

RECURSIVE LegalLine(_, _)
\* the moves of the records are legal one after the other, starting on board
LegalLine(board, rows) ==
    \/ rows = <<>>
    \/ /\ is_legal(board, from_uci(Head(rows).move_uci))
       /\ LegalLine(push(board, from_uci(Head(rows).move_uci)), Tail(rows))

RECURSIVE Replay(_, _)
\* the position reached from board by the moves of the records
Replay(board, rows) ==
    IF rows = <<>> THEN board
    ELSE Replay(push(board, from_uci(Head(rows).move_uci)), Tail(rows))

C23_PresenceClientSubscribed ==
    [][\A p \in PresenceSockets :
          /\ (presence_state[p] = "new" /\ presence_state'[p] # "new") =>
                /\ presence_state'[p] = "open"
                /\ p \in Range(presence_connections')
          /\ presence_state'[p] = "open" => p \in Range(presence_connections')]_vars

\* no client ever is a presence subscriber
PresenceChannelUnreachable ==
    /\ presence_connections = <<>>
    /\ \A p \in PresenceSockets : presence_state[p] # "open" /\ presence_inbox[p] = <<>>

\* the side to move that a position's FEN names
SideToMove(position) == IF position[2] = "w" THEN "white" ELSE "black"

\* C24: the stored turn of a game is the side to move of its in-memory
\* position, white exactly when an even number of moves has been applied to
\* it, and the turn and the position of every move broadcast agree likewise.
C24_TurnIsSideToMove ==
    /\ \A g \in DOMAIN games :
          /\ g \in DOMAIN game_turns /\ g \in DOMAIN game_boards
          /\ game_turns[g] = SideToMove(fen(game_boards[g]))
          /\ game_turns[g] = "white" <=> game_boards[g].ply % 2 = 0
    /\ \A w \in WebSockets :
          /\ pc[w] = "bcast" => bc[w].msg.turn = SideToMove(bc[w].msg.fen)
          /\ \A i \in 1..Len(inbox[w]) :
                inbox[w][i].turn = SideToMove(inbox[w][i].fen)

\* two moves were applied, it is white's turn again, and a subscriber has
\* received the broadcasts of both
C24_WhiteAgainAfterTwoMoves ==
    \E g \in DOMAIN games, w \in WebSockets :
        /\ game_boards[g].ply = 2
        /\ game_turns[g] = "white"
        /\ Len(inbox[w]) = 2

====
